---- MODULE Spec2Model ----
(***************************************************************************)
(* Model of src/app.py: the reconciliation of PCASP ledger groups 7 and 8. *)
(*                                                                         *)
(* Text is a sequence of one-character strings, so that strip, split,      *)
(* replace, startswith and the regular expressions act on characters as    *)
(* they do in Python.  A cell of the table is str, NaN (what read_csv      *)
(* gives for an empty field) or None (what row.get gives for a column the  *)
(* table does not have).  A float is a decimal number held as an integer   *)
(* count of 10^-Decimals units, or NaN: sums and differences are exact in  *)
(* the model where IEEE doubles round in the last bits.                    *)
(* Column names are written without accents (mascara, descricao).          *)
(***************************************************************************)
EXTENDS Integers, Sequences, FiniteSets, TLC

VARIABLES columns, entrada, df, pc, ultima, mascaras,
          resumo, g7, g8, final, corretos, divergentes, erro

vars == <<columns, entrada, df, pc, ultima, mascaras,
          resumo, g7, g8, final, corretos, divergentes, erro>>

\* ------------------------------------------------------------------ bounds
Decimals == 3
MaxRows == 2
MaxFillRows == 5
MaxSegs == 6
MaxChainRows == 4
MaxJoinRows == 3

\* --------------------------------------------------------- Python values
Str(s) == [k |-> "str", s |-> s]
NaN == [k |-> "nan", s |-> <<>>]
None == [k |-> "none", s |-> <<>>]

F(v) == [nan |-> FALSE, v |-> v]
FNaN == [nan |-> TRUE, v |-> 0]

RECURSIVE Pow10(_)
Pow10(n) == IF n = 0 THEN 1 ELSE 10 * Pow10(n - 1)

Whitespace == {" "}
Digits == {"0", "1", "2", "3", "4", "5", "6", "7", "8", "9"}

\* Characters of the model's texts in code-point order (for sorting keys).
Chars == <<" ", ",", "-", ".", "0", "1", "2", "3", "4", "5", "6", "7", "8", "9",
           "A", "B", "C", "D", "E", "F", "G", "H", "I", "J", "K", "L", "M",
           "N", "O", "P", "Q", "R", "S", "T", "U", "V", "W", "X", "Y", "Z",
           "a", "b", "c", "d", "e", "f", "g", "h", "i", "j", "k", "l", "m",
           "n", "o", "p", "q", "r", "s", "t", "u", "v", "w", "x", "y", "z">>

Ord(c) == CHOOSE k \in 1..Len(Chars) : Chars[k] = c

\* str(x) of a cell
str(x) == IF x.k = "str" THEN x.s
          ELSE IF x.k = "nan" THEN <<"n", "a", "n">>
          ELSE <<"N", "o", "n", "e">>

\* pd.notna(x)
notna(x) == x.k = "str"

\* isinstance(x, str)
isstr(x) == x.k = "str"

RECURSIVE lstrip(_)
lstrip(s) == IF s # <<>> /\ Head(s) \in Whitespace THEN lstrip(Tail(s)) ELSE s

RECURSIVE rstrip(_)
rstrip(s) == IF s # <<>> /\ s[Len(s)] \in Whitespace
             THEN rstrip(SubSeq(s, 1, Len(s) - 1)) ELSE s

strip(s) == rstrip(lstrip(s))

upperChar(c) == IF Ord(c) >= Ord("a") /\ Ord(c) <= Ord("z")
                THEN Chars[Ord(c) - Ord("a") + Ord("A")] ELSE c

upper(s) == [k \in 1..Len(s) |-> upperChar(s[k])]

lowerChar(c) == IF Ord(c) >= Ord("A") /\ Ord(c) <= Ord("Z")
                THEN Chars[Ord(c) - Ord("A") + Ord("a")] ELSE c

lower(s) == [k \in 1..Len(s) |-> lowerChar(s[k])]

startswith(s, p) == Len(s) >= Len(p) /\ SubSeq(s, 1, Len(p)) = p

\* s.replace(old, new) for a one-character old
RECURSIVE replace(_, _, _)
replace(s, old, new) ==
    IF s = <<>> THEN <<>>
    ELSE (IF Head(s) = old THEN new ELSE <<Head(s)>>) \o replace(Tail(s), old, new)

\* s.split(sep) for a one-character sep
RECURSIVE split(_, _)
split(s, sep) ==
    IF \A k \in 1..Len(s) : s[k] # sep THEN <<s>>
    ELSE LET k == CHOOSE j \in 1..Len(s) :
                      s[j] = sep /\ \A h \in 1..(j - 1) : s[h] # sep
         IN <<SubSeq(s, 1, k - 1)>> \o split(SubSeq(s, k + 1, Len(s)), sep)

\* sep.join(parts)
RECURSIVE join(_, _)
join(sep, parts) ==
    IF parts = <<>> THEN <<>>
    ELSE IF Len(parts) = 1 THEN parts[1]
    ELSE parts[1] \o sep \o join(sep, Tail(parts))

AllDigits(s) == \A k \in 1..Len(s) : s[k] \in Digits

DigitVal(c) == Ord(c) - Ord("0")

RECURSIVE IntOf(_)
IntOf(s) == IF s = <<>> THEN 0
            ELSE 10 * IntOf(SubSeq(s, 1, Len(s) - 1)) + DigitVal(s[Len(s)])

\* The fraction digits fp as a count of 10^-Decimals units.
FracOf(fp) ==
    IntOf([k \in 1..Decimals |-> IF k <= Len(fp) THEN fp[k] ELSE "0"])

\* float(s): [ok |-> FALSE] is ValueError.  Decimal literals with an optional
\* sign, and nan; the texts of the model hold no exponent, underscore or inf.
float(s) ==
    LET t == strip(s)
        signed == t # <<>> /\ Head(t) \in {"+", "-"}
        neg == t # <<>> /\ Head(t) = "-"
        u == IF signed THEN Tail(t) ELSE t
        parts == split(u, ".")
        ip == parts[1]
        fp == IF Len(parts) >= 2 THEN parts[2] ELSE <<>>
        mag == IntOf(ip) * Pow10(Decimals) + FracOf(fp)
    IN IF lower(u) = <<"n", "a", "n">> THEN [ok |-> TRUE, val |-> FNaN]
       ELSE IF Len(parts) <= 2 /\ AllDigits(ip) /\ AllDigits(fp)
               /\ Len(ip) + Len(fp) >= 1
            THEN [ok |-> TRUE, val |-> F(IF neg THEN -mag ELSE mag)]
            ELSE [ok |-> FALSE, val |-> F(0)]

\* ------------------------------------------------------------ app.py 63-80
converter_valor(valor) ==
    IF valor.k = "none" THEN F(0)
    ELSE LET v1 == strip(str(valor))
             v2 == replace(v1, ".", <<>>)
             v3 == replace(v2, ",", <<".">>)
             r == float(v3)
         IN IF v1 = <<>> THEN F(0)
            ELSE IF r.ok THEN r.val ELSE F(0)

\* ------------------------------------------------------------ app.py 55-58
COL_MASCARA == "mascara"
COL_DESC == "descricao"
COL_SALDO == "saldo atual"
COL_TIPO == IF "tipo saldo.1" \in columns THEN "tipo saldo.1" ELSE "tipo saldo"

\* row.get(c)
get(row, c) == IF c \in DOMAIN row THEN row[c] ELSE None

\* The row with one more (or one replaced) column.
Ext(row, c, x) == [y \in (DOMAIN row) \cup {c} |-> IF y = c THEN x ELSE row[y]]

\* ------------------------------------------------------------ app.py 88-92
\* One turn of the forward-fill loop: the value of ultima after the row.
\* Mutant: the mask is kept as written, not trimmed.
proxima_ultima_sem_strip(ult, val) ==
    IF notna(val) /\ strip(str(val)) # <<>> THEN Str(str(val)) ELSE ult

\* Mutant: only a mask of group 7 or 8 replaces the last one seen.
proxima_ultima_so_78(ult, val) ==
    IF notna(val) /\ strip(str(val)) # <<>> /\ strip(str(val))[1] \in {"7", "8"}
    THEN Str(strip(str(val))) ELSE ult

proxima_ultima(ult, val) ==
    IF notna(val) /\ strip(str(val)) # <<>> THEN Str(strip(str(val))) ELSE ult

\* ------------------------------------------------------------ app.py 99
\* Series.str.extract(r"^([78])") of one value
extrair_grupo(m) ==
    IF isstr(m) /\ m.s # <<>> /\ m.s[1] \in {"7", "8"} THEN Str(<<m.s[1]>>) ELSE NaN

\* app.py 100: isin(["7", "8"])
isin_78(g) == g \in {Str(<<"7">>), Str(<<"8">>)}

\* ---------------------------------------------------------- app.py 107-112
NivelMax == 5

\* Mutant: six levels are kept (partes[1:7]).
normalizar_mascara_6(m) ==
    IF ~isstr(m) THEN <<>>
    ELSE LET partes == Tail(split(m.s, "."))
             n == IF Len(partes) < NivelMax + 1 THEN Len(partes) ELSE NivelMax + 1
         IN join(<<".">>, SubSeq(partes, 1, n))

normalizar_mascara(m) ==
    IF ~isstr(m) THEN <<>>
    ELSE LET partes == Tail(split(m.s, "."))
             n == IF Len(partes) < NivelMax THEN Len(partes) ELSE NivelMax
         IN join(<<".">>, SubSeq(partes, 1, n))

\* ---------------------------------------------------------- app.py 124-140
\* Mutant: the type is compared as written, without strip().upper().
calcular_valor_literal(row, col_tipo) ==
    LET tipo == get(row, col_tipo)
    IN IF ~isstr(tipo) THEN F(0)
       ELSE IF row["grupo"] = Str(<<"7">>) /\ startswith(tipo.s, <<"D">>) THEN row["saldo_num"]
       ELSE IF row["grupo"] = Str(<<"8">>) /\ startswith(tipo.s, <<"C">>) THEN row["saldo_num"]
       ELSE F(0)

calcular_valor(row, col_tipo) ==
    LET tipo == get(row, col_tipo)
        t == upper(strip(tipo.s))
    IN IF ~isstr(tipo) THEN F(0)
       ELSE IF row["grupo"] = Str(<<"7">>) /\ startswith(t, <<"D">>) THEN row["saldo_num"]
       ELSE IF row["grupo"] = Str(<<"8">>) /\ startswith(t, <<"C">>) THEN row["saldo_num"]
       ELSE F(0)

\* ------------------------------------------------------------ app.py 147
MinRun == 11
MaxRun == 14

\* re.search(r"\d{11,14}", s) finds a match
busca_digitos(s) ==
    \E k \in 1..Len(s) : \E n \in MinRun..MaxRun :
        k + n - 1 <= Len(s) /\ \A h \in k..(k + n - 1) : s[h] \in Digits

\* Series.str.contains(r"\d{11,14}", na=False) of one value
contem_cpf_cnpj(x) == IF isstr(x) THEN busca_digitos(x.s) ELSE FALSE

\* ------------------------------------------------- ordering of group keys
RECURSIVE LessStr(_, _)
LessStr(a, b) ==
    IF b = <<>> THEN FALSE
    ELSE IF a = <<>> THEN TRUE
    ELSE IF Head(a) = Head(b) THEN LessStr(Tail(a), Tail(b))
    ELSE Ord(Head(a)) < Ord(Head(b))

RECURSIVE LessKey(_, _)
LessKey(x, y) ==
    IF x = <<>> \/ y = <<>> THEN FALSE
    ELSE IF x[1] = y[1] THEN LessKey(Tail(x), Tail(y))
    ELSE LessStr(x[1], y[1])

RECURSIVE SortKeys(_)
SortKeys(S) ==
    IF S = {} THEN <<>>
    ELSE LET m == CHOOSE x \in S : \A y \in S \ {x} : LessKey(x, y)
         IN <<m>> \o SortKeys(S \ {m})

\* Mutant: sum(skipna=False), a NaN makes the sum NaN.
RECURSIVE soma_propaga_nan(_)
soma_propaga_nan(vs) ==
    IF vs = <<>> THEN F(0)
    ELSE LET r == soma_propaga_nan(Tail(vs))
         IN IF Head(vs).nan \/ r.nan THEN FNaN ELSE F(Head(vs).v + r.v)

\* Series.sum() of a group: NaN is skipped, an empty sum is 0.
RECURSIVE soma(_)
soma(vs) == IF vs = <<>> THEN F(0)
            ELSE LET r == soma(Tail(vs))
                 IN IF Head(vs).nan THEN r ELSE F(Head(vs).v + r.v)

\* ---------------------------------------------------------- app.py 152-158
Col(d, c) == [k \in 1..Len(d) |-> d[k][c]]

chave3(row) == <<row["mascara_normalizada"], row[COL_DESC].s, row["grupo"].s>>

agrupar(d) ==
    LET keys == SortKeys({chave3(d[k]) : k \in 1..Len(d)})
    IN [j \in 1..Len(keys) |->
          [mascara_normalizada |-> keys[j][1],
           descricao |-> keys[j][2],
           grupo |-> keys[j][3],
           valor |-> soma(Col(SelectSeq(d, LAMBDA r : chave3(r) = keys[j]), "valor"))]]

\* app.py 160-161: the totals of one group, valor renamed
do_grupo(res, g, nome) ==
    LET sel == SelectSeq(res, LAMBDA r : r.grupo = g)
    IN [k \in 1..Len(sel) |->
          [mascara_normalizada |-> sel[k].mascara_normalizada,
           descricao |-> sel[k].descricao,
           grupo |-> sel[k].grupo] @@ (nome :> sel[k].valor)]

\* ---------------------------------------------------------- app.py 163-168
chave2(r) == <<r.mascara_normalizada, r.descricao>>

\* fillna(0) of one value
fillna0(x) == IF x.nan THEN F(0) ELSE x

RECURSIVE Flatten(_)
Flatten(ss) == IF ss = <<>> THEN <<>> ELSE Head(ss) \o Flatten(Tail(ss))

\* The rows pd.merge(how="outer") gives for one key: every pair of a left and a
\* right row with the key, or the rows of the one side with NaN for the other.
\* (The columns grupo_x and grupo_y, dropped at lines 188-197, are left out.)
linhas_da_chave(left, right, key) ==
    LET L == SelectSeq(left, LAMBDA r : chave2(r) = key)
        R == SelectSeq(right, LAMBDA r : chave2(r) = key)
        rec(a, b) == [mascara_normalizada |-> key[1], descricao |-> key[2],
                      valor_g7 |-> a, valor_g8 |-> b]
    IN IF R = <<>> THEN [i \in 1..Len(L) |-> rec(L[i].valor_g7, FNaN)]
       ELSE IF L = <<>> THEN [j \in 1..Len(R) |-> rec(FNaN, R[j].valor_g8)]
       ELSE Flatten([i \in 1..Len(L) |->
                        [j \in 1..Len(R) |-> rec(L[i].valor_g7, R[j].valor_g8)]])

\* Mutant: how="inner", only the keys of both sides.
merge_inner(left, right) ==
    LET keys == SortKeys({chave2(left[k]) : k \in 1..Len(left)}
                         \cap {chave2(right[k]) : k \in 1..Len(right)})
        m == Flatten([j \in 1..Len(keys) |-> linhas_da_chave(left, right, keys[j])])
    IN [k \in 1..Len(m) |->
          [m[k] EXCEPT !.valor_g7 = fillna0(@), !.valor_g8 = fillna0(@)]]

merge_outer(left, right) ==
    LET keys == SortKeys({chave2(left[k]) : k \in 1..Len(left)}
                         \cup {chave2(right[k]) : k \in 1..Len(right)})
        m == Flatten([j \in 1..Len(keys) |-> linhas_da_chave(left, right, keys[j])])
    IN [k \in 1..Len(m) |->
          [m[k] EXCEPT !.valor_g7 = fillna0(@), !.valor_g8 = fillna0(@)]]

\* ---------------------------------------------------------- app.py 173-176
\* a - b of two floats
sub(a, b) == IF a.nan \/ b.nan THEN FNaN ELSE F(a.v - b.v)

Abs(n) == IF n < 0 THEN -n ELSE n

\* Mutant: abs(x) <= 0.01
dentro_tolerancia_inclusiva(x) == ~x.nan /\ Abs(x.v) * 100 <= Pow10(Decimals)

\* abs(x) < 0.01
dentro_tolerancia(x) == ~x.nan /\ Abs(x.v) * 100 < Pow10(Decimals)

status_de(x) == IF dentro_tolerancia(x) THEN "CORRETO" ELSE "DIVERGENTE"

validar(f) ==
    [k \in 1..Len(f) |->
        LET d == sub(f[k].valor_g7, f[k].valor_g8)
        IN f[k] @@ [Diferenca |-> d, Status |-> status_de(d)]]

\* --------------------------------------------------- the derived columns
\* app.py 94: df["mascara_completa"] = mascaras
com_mascaras(tab, ms) == [k \in 1..Len(tab) |-> Ext(tab[k], "mascara_completa", ms[k])]

\* app.py 99: df["grupo"] = ...
com_grupo(d) ==
    [k \in 1..Len(d) |-> Ext(d[k], "grupo", extrair_grupo(d[k]["mascara_completa"]))]

\* app.py 114: df["mascara_normalizada"] = ...
com_normalizada(d) ==
    [k \in 1..Len(d) |-> Ext(d[k], "mascara_normalizada", normalizar_mascara(d[k]["mascara_completa"]))]

\* app.py 119: df["saldo_num"] = ...
com_saldo_num(d) ==
    [k \in 1..Len(d) |-> Ext(d[k], "saldo_num", converter_valor(d[k][COL_SALDO]))]

\* app.py 142: df["valor"] = ...
com_valor(d) ==
    [k \in 1..Len(d) |-> Ext(d[k], "valor", calcular_valor(d[k], COL_TIPO))]

\* ------------------------------------------------------------------ steps
\* app.py 88-92: one row of the forward-fill loop
PreencherLinha ==
    /\ pc = "preencher"
    /\ Len(mascaras) < Len(df)
    /\ LET row == df[Len(mascaras) + 1]
           nova == proxima_ultima(ultima, get(row, COL_MASCARA))
       IN /\ ultima' = nova
          /\ mascaras' = Append(mascaras, nova)
    /\ UNCHANGED <<columns, entrada, df, pc, resumo, g7, g8, final,
                   corretos, divergentes, erro>>

\* app.py 94: df["mascara_completa"] = mascaras
AtribuirMascaras ==
    /\ pc = "preencher"
    /\ Len(mascaras) = Len(df)
    /\ df' = com_mascaras(df, mascaras)
    /\ columns' = columns \cup {"mascara_completa"}
    /\ pc' = "classificar"
    /\ UNCHANGED <<entrada, ultima, mascaras, resumo, g7, g8, final,
                   corretos, divergentes, erro>>

\* Mutant: the rows of no group are kept.
filtrar_grupo_sem_filtro(d) == d

\* app.py 99-100: the group column, then only the rows of group 7 or 8
filtrar_grupo(d) == SelectSeq(d, LAMBDA r : isin_78(r["grupo"]))

Classificar ==
    /\ pc = "classificar"
    /\ df' = filtrar_grupo(com_grupo(df))
    /\ columns' = columns \cup {"grupo"}
    /\ pc' = "normalizar"
    /\ UNCHANGED <<entrada, ultima, mascaras, resumo, g7, g8, final,
                   corretos, divergentes, erro>>

\* app.py 114
Normalizar ==
    /\ pc = "normalizar"
    /\ df' = com_normalizada(df)
    /\ columns' = columns \cup {"mascara_normalizada"}
    /\ pc' = "converter"
    /\ UNCHANGED <<entrada, ultima, mascaras, resumo, g7, g8, final,
                   corretos, divergentes, erro>>

\* app.py 119: df[COL_SALDO] raises KeyError when the table has no such column
Converter ==
    /\ pc = "converter"
    /\ IF COL_SALDO \in columns
       THEN /\ df' = com_saldo_num(df)
            /\ columns' = columns \cup {"saldo_num"}
            /\ pc' = "calcular"
            /\ erro' = erro
       ELSE /\ erro' = "KeyError"
            /\ pc' = "erro"
            /\ UNCHANGED <<df, columns>>
    /\ UNCHANGED <<entrada, ultima, mascaras, resumo, g7, g8, final,
                   corretos, divergentes>>

\* app.py 142
Calcular ==
    /\ pc = "calcular"
    /\ df' = com_valor(df)
    /\ columns' = columns \cup {"valor"}
    /\ pc' = "filtrar"
    /\ UNCHANGED <<entrada, ultima, mascaras, resumo, g7, g8, final,
                   corretos, divergentes, erro>>

\* app.py 147: df[COL_DESC] raises KeyError when the table has no such column
filtrar_credores(d) == SelectSeq(d, LAMBDA r : contem_cpf_cnpj(r[COL_DESC]))

Filtrar ==
    /\ pc = "filtrar"
    /\ IF COL_DESC \in columns
       THEN /\ df' = filtrar_credores(df)
            /\ pc' = "agrupar"
            /\ erro' = erro
       ELSE /\ erro' = "KeyError"
            /\ pc' = "erro"
            /\ df' = df
    /\ UNCHANGED <<columns, entrada, ultima, mascaras, resumo, g7, g8, final,
                   corretos, divergentes>>

\* app.py 152-161
Agrupar ==
    /\ pc = "agrupar"
    /\ resumo' = agrupar(df)
    /\ g7' = do_grupo(resumo', <<"7">>, "valor_g7")
    /\ g8' = do_grupo(resumo', <<"8">>, "valor_g8")
    /\ pc' = "juntar"
    /\ UNCHANGED <<columns, entrada, df, ultima, mascaras, final,
                   corretos, divergentes, erro>>

\* app.py 163-168
Juntar ==
    /\ pc = "juntar"
    /\ final' = merge_outer(g7, g8)
    /\ pc' = "validar"
    /\ UNCHANGED <<columns, entrada, df, ultima, mascaras, resumo, g7, g8,
                   corretos, divergentes, erro>>

\* app.py 173-176
Validar ==
    /\ pc = "validar"
    /\ final' = validar(final)
    /\ pc' = "separar"
    /\ UNCHANGED <<columns, entrada, df, ultima, mascaras, resumo, g7, g8,
                   corretos, divergentes, erro>>

\* app.py 213-214 (the renaming and currency rendering of 181-211 change no
\* value and are not modelled: final keeps its numbers)
Separar ==
    /\ pc = "separar"
    /\ corretos' = SelectSeq(final, LAMBDA r : r.Status = "CORRETO")
    /\ divergentes' = SelectSeq(final, LAMBDA r : r.Status = "DIVERGENTE")
    /\ pc' = "fim"
    /\ UNCHANGED <<columns, entrada, df, ultima, mascaras, resumo, g7, g8,
                   final, erro>>

Next ==
    \/ PreencherLinha
    \/ AtribuirMascaras
    \/ Classificar
    \/ Normalizar
    \/ Converter
    \/ Calcular
    \/ Filtrar
    \/ Agrupar
    \/ Juntar
    \/ Validar
    \/ Separar

\* ------------------------------------------------------------ input tables
\* The table read_csv(dtype=str) gives (app.py 34-50): every cell is a
\* non-empty text or NaN, the column names are trimmed and lower-cased.
Colunas4 == {"mascara", "descricao", "saldo atual", "tipo saldo"}

CellOf(c, tup) ==
    CASE c = "mascara" -> tup[1]
      [] c = "descricao" -> tup[2]
      [] c = "saldo atual" -> tup[3]
      [] c = "tipo saldo" -> tup[4]
      [] c = "tipo saldo.1" -> tup[5]

MkRow(cols, i, tup) ==
    [c \in cols \cup {"idx"} |-> IF c = "idx" THEN i ELSE CellOf(c, tup)]

\* Texts of the model's tables.
M_7_1 == <<"7", ".", "1">>
M_8_1 == <<"8", ".", "1">>
M_9_1 == <<"9", ".", "1">>
M_7_1_pad == <<" ", "7", ".", "1", " ">>
M_8_2 == <<"8", ".", "2">>
M_branco == <<" ", " ">>
M_7 == <<"7">>
M_78 == <<"7", "8", ".", "1">>
D_credor_a == <<"A", " ", "1", "2", "3", "4", "5", "6", "7", "8", "9", "0", "1">>
D_credor_b == <<"B", " ", "1", "2", "3", "4", "5", "6", "7", "8", "0", "0", "0", "1", "9", "9">>
D_formatado == <<"J", "O", "A", "O", " ", "D", "A", " ", "S", "I", "L", "V", "A", " ", "1", "2", "3", ".", "4", "5", "6", ".", "7", "8", "9", "-", "0", "0">>
D_total == <<"T", "O", "T", "A", "L", " ", "G", "E", "R", "A", "L">>
D_dez_digitos == <<"C", " ", "1", "2", "3", "4", "5", "6", "7", "8", "9", "0">>
S_100 == <<"1", "0", "0", ",", "0", "0">>
S_100_004 == <<"1", "0", "0", ",", "0", "0", "4">>
S_100_02 == <<"1", "0", "0", ",", "0", "2">>
S_100_01 == <<"1", "0", "0", ",", "0", "1">>
S_99_991 == <<"9", "9", ",", "9", "9", "1">>
S_50 == <<"5", "0", ",", "0", "0">>
S_milhar == <<"1", ".", "2", "3", "4", ",", "5", "6">>
S_abc == <<"a", "b", "c">>
S_branco == <<" ">>
S_negativo == <<"-", "5", "0", ",", "0", "0">>
S_duas_virgulas == <<"1", ",", "2", ",", "3">>
T_D == <<"D">>
T_D_pad == <<"D", " ">>
T_pad_d == <<" ", "d">>
T_C == <<"C">>
T_Credito == <<"C", "r", "e", "d", "i", "t", "o">>
T_c == <<"c">>
T_X == <<"X">>
T_branco == <<" ">>

\* A table: the rows of `tuples` under the columns `cols`.
Tabela(cols, tuples) == [i \in 1..Len(tuples) |-> MkRow(cols, i, tuples[i])]

SeqsUpTo(S, n) == UNION {[1..m -> S] : m \in 0..n}

InitCom(cols, tuples) ==
    /\ columns = cols
    /\ entrada = Tabela(cols, tuples)
    /\ df = entrada
    /\ pc = "preencher"
    /\ ultima = None
    /\ mascaras = <<>>
    /\ resumo = <<>>
    /\ g7 = <<>>
    /\ g8 = <<>>
    /\ final = <<>>
    /\ corretos = <<>>
    /\ divergentes = <<>>
    /\ erro = "nenhum"

\* Tables of up to MaxRows rows: masks of groups 7, 8 and 9 or none, creditor
\* and header lines, well-formed and malformed balance and type cells.
Mascaras0 == {NaN, Str(M_7_1), Str(M_8_2), Str(M_9_1)}
Descricoes0 == {Str(D_credor_a), Str(D_total)}
SaldoTipo0 == {<<Str(S_100), Str(T_D)>>, <<Str(S_100), Str(T_C)>>,
               <<Str(S_abc), Str(T_D)>>, <<NaN, Str(T_C)>>, <<Str(S_50), NaN>>}
Linhas0 == {<<m, d, st[1], st[2]>> : m \in Mascaras0, d \in Descricoes0, st \in SaldoTipo0}

Init == \E tuples \in SeqsUpTo(Linhas0, MaxRows) : InitCom(Colunas4, tuples)

Spec == Init /\ [][Next]_vars

\* Forward-fill tables: up to MaxFillRows creditor lines whose mask cell is
\* empty, blank, padded or plain.
MascarasFill == {NaN, Str(M_branco), Str(M_7_1_pad), Str(M_8_2)}
LinhasFill == {<<m, Str(D_credor_a), Str(S_100), Str(T_D)>> : m \in MascarasFill}

InitFill == \E tuples \in SeqsUpTo(LinhasFill, MaxFillRows) : InitCom(Colunas4, tuples)

SpecFill == InitFill /\ [][Next]_vars

\* Mask tables: a group-7 line and a group-8 line of one creditor, each mask
\* the group digit followed by up to MaxSegs segments.
Segmentos == {<<"1">>, <<"0", "4">>}
MascaraDe(g, segs) == join(<<".">>, <<<<g>>>> \o segs)
LinhaMascara(g, segs, t) == <<Str(MascaraDe(g, segs)), Str(D_credor_a), Str(S_100), Str(t)>>

InitMask ==
    \E s1 \in SeqsUpTo(Segmentos, MaxSegs) : \E s2 \in SeqsUpTo(Segmentos, MaxSegs) :
        InitCom(Colunas4, <<LinhaMascara("7", s1, T_D), LinhaMascara("8", s2, T_C)>>)

SpecMask == InitMask /\ [][Next]_vars

\* One-line tables with every kind of cell, under the four columns or with the
\* duplicated type column that read_csv names "tipo saldo.1".
Colunas5 == Colunas4 \cup {"tipo saldo.1"}
MascarasRow == {NaN, Str(M_7_1), Str(M_8_1), Str(M_9_1), Str(M_7), Str(M_78)}
DescricoesRow == {NaN, Str(D_credor_a), Str(D_credor_b), Str(D_formatado),
                  Str(D_total), Str(D_dez_digitos)}
SaldosRow == {NaN, Str(S_100), Str(S_50), Str(S_milhar), Str(S_abc), Str(S_branco),
              Str(S_negativo), Str(S_duas_virgulas)}
TiposRow == {NaN, Str(T_D), Str(T_D_pad), Str(T_pad_d), Str(T_C), Str(T_Credito),
             Str(T_c), Str(T_X), Str(T_branco)}

InitRow ==
    \E m \in MascarasRow : \E d \in DescricoesRow : \E s \in SaldosRow : \E t \in TiposRow :
        \/ InitCom(Colunas4, <<<<m, d, s, t>>>>)
        \/ InitCom(Colunas5, <<<<m, d, s, Str(T_X), t>>>>)

SpecRow == InitRow /\ [][Next]_vars

\* Tolerance tables: one creditor's group-7 debit and a group-8 credit of the
\* same or another creditor, with balances around the tolerance.
SaldosTol == {Str(S_100), Str(S_100_004), Str(S_100_01), Str(S_100_02),
              Str(S_99_991), Str(S_50), NaN}

InitTol ==
    \E s1 \in SaldosTol : \E s2 \in SaldosTol : \E d \in {Str(D_credor_a), Str(D_credor_b)} :
        InitCom(Colunas4, <<<<Str(M_7_1), Str(D_credor_a), s1, Str(T_D)>>,
                            <<Str(M_8_1), d, s2, Str(T_C)>>>>)

SpecTol == InitTol /\ [][Next]_vars

\* Join tables: up to MaxJoinRows creditor lines of two creditors under the
\* masks 7.1, 8.1 and 8.2.
LinhasJoin == {<<m, d, st[1], st[2]>> :
                  m \in {Str(M_7_1), Str(M_8_1), Str(M_8_2)},
                  d \in {Str(D_credor_a), Str(D_credor_b)},
                  st \in {<<Str(S_50), Str(T_D)>>, <<Str(S_100), Str(T_C)>>}}

InitJoin == \E tuples \in SeqsUpTo(LinhasJoin, MaxJoinRows) : InitCom(Colunas4, tuples)

SpecJoin == InitJoin /\ [][Next]_vars

\* Tables that lack one of the columns the script names (or none).
ColunasPossiveis == {Colunas4} \cup {Colunas4 \ {c} : c \in Colunas4}
LinhasCols == {<<m, Str(D_credor_a), Str(S_100), t>> :
                  m \in {Str(M_7_1), Str(M_8_2), NaN}, t \in {Str(T_D), Str(T_C)}}

InitCols ==
    \E cols \in ColunasPossiveis : \E tuples \in SeqsUpTo(LinhasCols, MaxRows) :
        InitCom(cols, tuples)

SpecCols == InitCols /\ [][Next]_vars

\* Chain tables: up to MaxChainRows header and creditor lines, with or without
\* a mask cell.
LinhasChain == {<<m, d, Str(S_100), Str(T_D)>> :
                   m \in {NaN, Str(M_7_1), Str(M_8_2), Str(M_9_1)},
                   d \in {Str(D_credor_a), Str(D_total)}}

InitChain == \E tuples \in SeqsUpTo(LinhasChain, MaxChainRows) : InitCom(Colunas4, tuples)

SpecChain == InitChain /\ [][Next]_vars

\* ------------------------------------------------- the script as a function
\* app.py 85-92: the masks of the rows of tab, ultima being ult before them
RECURSIVE reconstruir(_, _)
reconstruir(tab, ult) ==
    IF tab = <<>> THEN <<>>
    ELSE LET nova == proxima_ultima(ult, get(Head(tab), COL_MASCARA))
         IN <<nova>> \o reconstruir(Tail(tab), nova)

\* app.py 99-147: the rows that reach the aggregation, from rows with their masks
linhas_retidas(d) ==
    LET d2 == filtrar_grupo(com_grupo(d))
        d3 == com_normalizada(d2)
        d4 == com_saldo_num(d3)
        d5 == com_valor(d4)
    IN filtrar_credores(d5)

\* app.py 152-176: the reconciliation of the retained rows
reconciliar(d) ==
    LET res == agrupar(d)
    IN validar(merge_outer(do_grupo(res, <<"7">>, "valor_g7"),
                           do_grupo(res, <<"8">>, "valor_g8")))

\* The output of the script for a table that has the four columns.
saida(tab) == reconciliar(linhas_retidas(com_mascaras(tab, reconstruir(tab, None))))

\* ------------------------------------------------------------------ claims
Min(S) == CHOOSE x \in S : \A y \in S : x <= y
Max(S) == CHOOSE x \in S : \A y \in S : x >= y
Range(s) == {s[k] : k \in 1..Len(s)}

\* s without the whitespace before its first and after its last other character
Aparada(s) ==
    LET I == {k \in 1..Len(s) : s[k] \notin Whitespace}
    IN IF I = {} THEN <<>> ELSE SubSeq(s, Min(I), Max(I))

\* The mask cell of input row i is present and not blank.
NaoBranca(i) ==
    LET c == get(entrada[i], COL_MASCARA)
    IN c.k = "str" /\ \E k \in 1..Len(c.s) : c.s[k] \notin Whitespace

\* The trimmed mask cell of the latest row j <= i that has one, or None.
UltimaAte(i) ==
    LET J == {j \in 1..i : NaoBranca(j)}
    IN IF J = {} THEN None ELSE Str(Aparada(entrada[Max(J)][COL_MASCARA].s))

\* The retained row of input row i is in df.
Retida(i) == \E k \in 1..Len(df) : df[k]["idx"] = i

DepoisDe(etapas) == pc \notin etapas

\* C1: the reconstructed mask of every row i is the whitespace-trimmed mask
\* cell of the latest row j <= i whose cell is present and not blank, and null
\* when there is none; the loop gives one mask per row, in file order.
C1_ForwardFill ==
    /\ \A i \in 1..Len(mascaras) : mascaras[i] = UltimaAte(i)
    /\ pc # "preencher" => Len(mascaras) = Len(entrada)
    /\ pc = "classificar" =>
          \A k \in 1..Len(df) : df[k]["mascara_completa"] = UltimaAte(df[k]["idx"])

\* C1 witness: the masks [M, null, blank, M2, null], M padded, reconstructed
\* as [M, M, M, M2, M2].
C1_Witness ==
    /\ pc = "classificar"
    /\ Len(entrada) = 5
    /\ [i \in 1..5 |-> entrada[i][COL_MASCARA]]
          = <<Str(M_7_1_pad), NaN, Str(M_branco), Str(M_8_2), NaN>>
    /\ mascaras = <<Str(M_7_1), Str(M_7_1), Str(M_7_1), Str(M_8_2), Str(M_8_2)>>

\* The segments 2 to 6 of a mask, joined with dots.
Meio(m) ==
    LET segs == split(m, ".")
    IN join(<<".">>, SubSeq(segs, 2, IF Len(segs) < 6 THEN Len(segs) ELSE 6))

\* C5: the normalized mask is the mask without its first segment, cut to the
\* next 5 segments; it has at most 5 segments; two masks with the same segments
\* 2 to 6 have the same normalized mask; a mask of the group digit alone has
\* the empty normalized mask, under which its creditor is reported.
C5_Normalizacao ==
    DepoisDe({"preencher", "classificar", "normalizar"}) =>
        /\ \A k \in 1..Len(df) :
              LET m == df[k]["mascara_completa"].s
                  norm == df[k]["mascara_normalizada"]
              IN /\ norm = Meio(m)
                 /\ Len(split(norm, ".")) <= 5
                 /\ Len(split(m, ".")) = 1 => norm = <<>>
                 /\ (norm = <<>> /\ pc = "fim") =>
                       \E j \in 1..Len(final) :
                           /\ final[j].mascara_normalizada = <<>>
                           /\ final[j].descricao = df[k][COL_DESC].s
        /\ \A a \in 1..Len(df) : \A b \in 1..Len(df) :
              Meio(df[a]["mascara_completa"].s) = Meio(df[b]["mascara_completa"].s)
                 => df[a]["mascara_normalizada"] = df[b]["mascara_normalizada"]

\* C5 witness: 7.1.1.1.1.04.1 and 8.1.1.1.1.04.04 differ in the group digit
\* and in the seventh segment, and are reconciled under the key 1.1.1.1.04.
C5_Witness ==
    /\ pc = "fim"
    /\ Len(entrada) = 2
    /\ entrada[1][COL_MASCARA] =
          Str(<<"7", ".", "1", ".", "1", ".", "1", ".", "1", ".", "0", "4", ".", "1">>)
    /\ entrada[2][COL_MASCARA] =
          Str(<<"8", ".", "1", ".", "1", ".", "1", ".", "1", ".", "0", "4", ".", "0", "4">>)
    /\ Len(final) = 1
    /\ final[1].mascara_normalizada = <<"1", ".", "1", ".", "1", ".", "1", ".", "0", "4">>
    /\ final[1].Status = "CORRETO"

\* s begins with the letter c, in either case.
ComecaCom(s, c) == s # <<>> /\ s[1] \in {c, lowerChar(c)}

TipoDe(r) == get(entrada[r["idx"]], COL_TIPO)

\* C4 as stated: the contribution is the parsed balance when (group 7 and the
\* type indicator begins with D) or (group 8 and it begins with C), in either
\* case of the letter, and 0 for every other combination.
C4_Original ==
    pc = "filtrar" =>
        \A k \in 1..Len(df) :
            LET tipo == TipoDe(df[k])
                q == /\ isstr(tipo)
                     /\ \/ df[k]["grupo"].s = <<"7">> /\ ComecaCom(tipo.s, "D")
                        \/ df[k]["grupo"].s = <<"8">> /\ ComecaCom(tipo.s, "C")
            IN df[k]["valor"] = IF q THEN df[k]["saldo_num"] ELSE F(0)

\* C4 amended: as C4, the type indicator being compared after its surrounding
\* whitespace is trimmed.
C4_ValorAparado ==
    pc = "filtrar" =>
        \A k \in 1..Len(df) :
            LET tipo == TipoDe(df[k])
                q == /\ isstr(tipo)
                     /\ \/ df[k]["grupo"].s = <<"7">> /\ ComecaCom(Aparada(tipo.s), "D")
                        \/ df[k]["grupo"].s = <<"8">> /\ ComecaCom(Aparada(tipo.s), "C")
            IN df[k]["valor"] = IF q THEN df[k]["saldo_num"] ELSE F(0)

\* C4 witness: a group-7 line of type " d" and balance 100,00 contributes 100.
C4_Witness ==
    /\ pc = "filtrar"
    /\ Len(df) = 1
    /\ df[1]["grupo"] = Str(<<"7">>)
    /\ TipoDe(df[1]) = Str(T_pad_d)
    /\ df[1][COL_SALDO] = Str(S_100)
    /\ df[1]["valor"] = F(100 * Pow10(Decimals))

\* The reconstructed mask of input row i begins with 7 or 8.
NoGrupo(i) ==
    /\ mascaras[i].k = "str"
    /\ mascaras[i].s # <<>>
    /\ mascaras[i].s[1] \in {"7", "8"}

\* C7: a group-7 or group-8 line described "JOAO DA SILVA 123.456.789-00"
\* passes the creditor filter, and a line described "TOTAL GERAL" does not.
C7_FiltroCredor ==
    DepoisDe({"preencher", "classificar", "normalizar", "converter", "calcular",
              "filtrar", "erro"}) =>
        \A i \in 1..Len(entrada) :
            /\ (NoGrupo(i) /\ entrada[i][COL_DESC] = Str(D_formatado)) => Retida(i)
            /\ entrada[i][COL_DESC] = Str(D_total) => ~Retida(i)

\* C3: the difference of every record is its group-7 value minus its group-8
\* value, and its status is CORRETO exactly when that difference is strictly
\* between -0.01 and 0.01, DIVERGENTE otherwise (100.00 against 100.004 is
\* CORRETO, against 100.02 DIVERGENTE); every record is in exactly one of
\* corretos and divergentes, which hold nothing else.
C3_Status ==
    /\ pc \in {"separar", "fim"} =>
          \A k \in 1..Len(final) :
              LET a == final[k].valor_g7.v
                  b == final[k].valor_g8.v
                  d == a - b
                  perto == d * 100 < Pow10(Decimals) /\ (0 - d) * 100 < Pow10(Decimals)
              IN /\ final[k].Diferenca = F(d)
                 /\ final[k].Status = (IF perto THEN "CORRETO" ELSE "DIVERGENTE")
                 /\ (a * 1000 = 100000 * Pow10(Decimals) /\ b * 1000 = 100004 * Pow10(Decimals))
                       => final[k].Status = "CORRETO"
                 /\ (a * 100 = 10000 * Pow10(Decimals) /\ b * 100 = 10002 * Pow10(Decimals))
                       => final[k].Status = "DIVERGENTE"
    /\ pc = "fim" =>
          /\ Range(corretos) \cap Range(divergentes) = {}
          /\ Range(corretos) \cup Range(divergentes) = Range(final)
          /\ Len(corretos) + Len(divergentes) = Len(final)
          /\ \A k \in 1..Len(corretos) : corretos[k].Status = "CORRETO"
          /\ \A k \in 1..Len(divergentes) : divergentes[k].Status = "DIVERGENTE"

\* C3 witness: totals 100.00 and 100.004 of one creditor, reported CORRETO.
C3_Witness ==
    /\ pc = "fim"
    /\ Len(final) = 1
    /\ final[1].valor_g7.v * 1000 = 100000 * Pow10(Decimals)
    /\ final[1].valor_g8.v * 1000 = 100004 * Pow10(Decimals)
    /\ Len(corretos) = 1
    /\ divergentes = <<>>

\* The sum of the contributions of the rows of df whose index is in S.
RECURSIVE SomaDasLinhas(_)
SomaDasLinhas(S) ==
    IF S = {} THEN 0
    ELSE LET k == CHOOSE x \in S : TRUE
             x == df[k]["valor"]
         IN (IF x.nan THEN 0 ELSE x.v) + SomaDasLinhas(S \ {k})

ChaveDaLinha(k) == <<df[k]["mascara_normalizada"], df[k][COL_DESC].s>>

LinhasDe(key, g) ==
    {k \in 1..Len(df) : ChaveDaLinha(k) = key /\ df[k]["grupo"].s = <<g>>}

\* C2: every key of a retained row has exactly one record; every record has
\* the key of a retained row, the sum of the group-7 contributions of its key
\* as group-7 value and of the group-8 ones as group-8 value (0 for a side
\* without rows), and their difference; a key of group 7 alone with total 50
\* has group-8 value 0, difference 50 and status DIVERGENTE.
C2_OuterJoin ==
    pc \in {"validar", "separar", "fim"} =>
        /\ \A k \in 1..Len(df) :
              Cardinality({j \in 1..Len(final) : chave2(final[j]) = ChaveDaLinha(k)}) = 1
        /\ \A j \in 1..Len(final) :
              LET key == chave2(final[j])
              IN /\ \E k \in 1..Len(df) : ChaveDaLinha(k) = key
                 /\ final[j].valor_g7 = F(SomaDasLinhas(LinhasDe(key, "7")))
                 /\ final[j].valor_g8 = F(SomaDasLinhas(LinhasDe(key, "8")))
                 /\ pc # "validar" =>
                       /\ final[j].Diferenca = F(final[j].valor_g7.v - final[j].valor_g8.v)
                       /\ (LinhasDe(key, "8") = {}
                           /\ SomaDasLinhas(LinhasDe(key, "7")) = 50 * Pow10(Decimals))
                             => /\ final[j].valor_g8 = F(0)
                                /\ final[j].Diferenca = F(50 * Pow10(Decimals))
                                /\ final[j].Status = "DIVERGENTE"

\* C2 witness: a key with group-7 rows only, of total 50, reported once beside
\* a record of another key.
C2_Witness ==
    /\ pc = "fim"
    /\ Len(final) = 2
    /\ \E j \in 1..2 :
          /\ LinhasDe(chave2(final[j]), "8") = {}
          /\ LinhasDe(chave2(final[j]), "7") # {}
          /\ final[j].valor_g7 = F(50 * Pow10(Decimals))
          /\ final[j].valor_g8 = F(0)
          /\ final[j].Status = "DIVERGENTE"

\* C6: after the group classifier every row left has group 7 or 8, the first
\* character of its non-empty reconstructed mask; a row whose reconstructed
\* mask is null, empty or begins with neither 7 nor 8 is in no later table,
\* so feeds no record; no error is raised.
C6_Classificador ==
    /\ erro = "nenhum"
    /\ DepoisDe({"preencher", "classificar"}) =>
          /\ \A k \in 1..Len(df) :
                LET m == df[k]["mascara_completa"]
                IN /\ df[k]["grupo"] \in {Str(<<"7">>), Str(<<"8">>)}
                   /\ m.k = "str" /\ m.s # <<>>
                   /\ df[k]["grupo"].s = <<m.s[1]>>
                   /\ m = UltimaAte(df[k]["idx"])
          /\ \A i \in 1..Len(entrada) :
                LET u == UltimaAte(i)
                IN (u = None \/ u.s = <<>> \/ u.s[1] \notin {"7", "8"}) => ~Retida(i)
          /\ pc = "fim" =>
                \A j \in 1..Len(final) : \E k \in 1..Len(df) : ChaveDaLinha(k) = chave2(final[j])

\* C6 witness: a creditor line under the mask 9.1 after a creditor line under
\* 7.1; only the first feeds the output.
C6_Witness ==
    /\ pc = "fim"
    /\ Len(entrada) = 2
    /\ entrada[1][COL_MASCARA] = Str(M_7_1)
    /\ entrada[2][COL_MASCARA] = Str(M_9_1)
    /\ entrada[2][COL_DESC] = Str(D_credor_a)
    /\ Len(df) = 1
    /\ df[1]["idx"] = 1
    /\ Len(final) = 1

\* C8: when the table lacks one of the four columns, no row is processed and
\* the run ends in an error, with no result.
C8_ErroDeConfiguracao ==
    ~(Colunas4 \subseteq columns) => (mascaras = <<>> /\ pc # "fim")

\* Input row i has an empty, blank or unparseable balance cell, or a type
\* indicator that is no text.
Malformada(i) ==
    LET s == entrada[i][COL_SALDO]
        tp == get(entrada[i], COL_TIPO)
    IN \/ ~isstr(s)
       \/ Aparada(s.s) = <<>>
       \/ s.s \in {S_abc, S_duas_virgulas}
       \/ ~isstr(tp)

RemoverLinha(tab, i) == [k \in 1..(Len(tab) - 1) |-> IF k < i THEN tab[k] ELSE tab[k + 1]]

\* The records of f under keys that input row i does not feed.
Outras(f, i) ==
    SelectSeq(f, LAMBDA r : ~(\E k \in 1..Len(df) :
                                 df[k]["idx"] = i /\ ChaveDaLinha(k) = chave2(r)))

BemFormadasDe(key, g) == {k \in LinhasDe(key, g) : ~Malformada(df[k]["idx"])}

\* What C9 says of completion, of the contribution of a malformed row and of
\* the rows before the first mask: the run raises no error and never stops in
\* its error state; every total is the sum of the contributions of the well-formed rows of
\* its key and group; a row with no mask before it is in no later table.
C9_Tolerancia ==
    /\ erro = "nenhum"
    /\ pc # "erro"
    /\ DepoisDe({"preencher", "classificar"}) =>
          \A i \in 1..Len(entrada) : UltimaAte(i) = None => ~Retida(i)
    /\ pc = "fim" =>
          \A j \in 1..Len(final) :
              /\ final[j].valor_g7 = F(SomaDasLinhas(BemFormadasDe(chave2(final[j]), "7")))
              /\ final[j].valor_g8 = F(SomaDasLinhas(BemFormadasDe(chave2(final[j]), "8")))

CredoraSemMascara(i) == entrada[i][COL_DESC] = Str(D_credor_a) /\ ~NaoBranca(i)

\* C10: a creditor line with a blank mask cell is keyed by the mask of the
\* nearest line before it that has one, whatever that line's description, when
\* that mask begins with 7 or 8, and is in no record otherwise, whatever masks
\* came earlier.
C10_Heranca ==
    DepoisDe({"preencher", "classificar", "normalizar", "converter", "calcular",
              "filtrar", "erro"}) =>
        \A i \in 1..Len(entrada) :
            CredoraSemMascara(i) =>
                LET J == {j \in 1..i : NaoBranca(j)}
                    m == Aparada(entrada[Max(J)][COL_MASCARA].s)
                IN IF J # {} /\ m[1] \in {"7", "8"}
                   THEN /\ \E k \in 1..Len(df) :
                              /\ df[k]["idx"] = i
                              /\ df[k]["mascara_completa"] = Str(m)
                              /\ df[k]["grupo"] = Str(<<m[1]>>)
                              /\ df[k]["mascara_normalizada"] = Meio(m)
                        /\ pc = "fim" =>
                              \E j \in 1..Len(final) :
                                  chave2(final[j]) = <<Meio(m), entrada[i][COL_DESC].s>>
                   ELSE ~Retida(i)

\* C10 witness: header 7.1, creditor, header 9.1, creditor: the first creditor
\* is reported under the key 1 of the dropped header, the second is not
\* reported although 7.1 came earlier.
C10_Witness ==
    /\ pc = "fim"
    /\ Len(entrada) = 4
    /\ [i \in 1..4 |-> entrada[i][COL_MASCARA]] = <<Str(M_7_1), NaN, Str(M_9_1), NaN>>
    /\ [i \in 1..4 |-> entrada[i][COL_DESC]]
          = <<Str(D_total), Str(D_credor_a), Str(D_total), Str(D_credor_a)>>
    /\ Len(df) = 1
    /\ df[1]["idx"] = 2
    /\ Len(final) = 1
    /\ final[1].mascara_normalizada = <<"1">>

====
